---- MODULE Spec2Model ----
(***************************************************************************)
(* State-machine model of the Menu / MenuItem widgets.                     *)
(*                                                                         *)
(*   Menu      src/src/menu/Menu.ts      (stateful variant)                *)
(*   MenuItem  src/src/menu/MenuItem.ts                                    *)
(*                                                                         *)
(* The owning tree (property updates, renders, DOM events, the timer and   *)
(* frame queues of the host) is the environment: it picks the next event.  *)
(* Every handler of the widgets is one action.  The owner callbacks        *)
(* onRequestShow / onRequestHide / onClick / onKeydown are outputs: the    *)
(* variables `calls` and `itemCalls` hold the invocations made by the      *)
(* handler that ran last.                                                  *)
(***************************************************************************)
EXTENDS Integers, Sequences, FiniteSets, TLC

\* ---------------------------------------------------------------- bounds
MaxChildren == 2    \* most children an owner passes to a Menu
MaxDelay == 1       \* largest hideDelay, in clock ticks
MaxTimers == 2      \* most timers alive at once
MaxFrames == 1      \* most frame callbacks queued at once
MaxEvents == 2      \* distinct click event payloads
MaxTabIndex == 1    \* largest tabIndex an owner gives a MenuItem
MaxQueued == 2      \* animation callbacks waiting for the next frame
MaxPaints == 4      \* animation frames the host runs

\* ------------------------------------------------------------- key codes
\* Menu.ts 65-84
commonKeys == [enter |-> 13, escape |-> 27, space |-> 32, tab |-> 9]

\* the keyCode values of the arrow keys named by the maps below
arrowKeys == [left |-> 37, up |-> 38, right |-> 39, down |-> 40]

horizontalKeys ==
    [ascend |-> 38, decrease |-> 37, descend |-> 40, increase |-> 39,
     enter |-> commonKeys.enter, escape |-> commonKeys.escape,
     space |-> commonKeys.space, tab |-> commonKeys.tab]

\* verticalKeys with a slip: the codes of `ascend` and `decrease` are exchanged
verticalKeysAscendsOnUp ==
    [ascend |-> 38, decrease |-> 37, descend |-> 39, increase |-> 40,
     enter |-> commonKeys.enter, escape |-> commonKeys.escape,
     space |-> commonKeys.space, tab |-> commonKeys.tab]

verticalKeys ==
    [ascend |-> 37, decrease |-> 38, descend |-> 39, increase |-> 40,
     enter |-> commonKeys.enter, escape |-> commonKeys.escape,
     space |-> commonKeys.space, tab |-> commonKeys.tab]

\* the keyCode values the environment delivers: the keys of the maps and one
\* key that no map names (65, the letter "a")
KeyCodes == {9, 13, 27, 32, 37, 38, 39, 40, 65}

\* ------------------------------------------------------ JavaScript numbers
\* NaN, the result of `x % 0` (Menu.ts 241 with no children); it is kept
\* apart from every index by its value and never takes part in arithmetic.
NaN == -1000

IsNaN(x) == x = NaN

JsAdd(x, y) == IF IsNaN(x) \/ IsNaN(y) THEN NaN ELSE x + y

\* `x < y`: false when either side is NaN
JsLess(x, y) == ~IsNaN(x) /\ ~IsNaN(y) /\ x < y

\* Math.min
JsMin(x, y) == IF IsNaN(x) \/ IsNaN(y) THEN NaN ELSE IF x < y THEN x ELSE y

\* `a % m` for m >= 0: NaN for m = 0, else the remainder with the sign of a
JsMod(a, m) ==
    IF IsNaN(a) \/ IsNaN(m) \/ m = 0 THEN NaN
    ELSE IF a >= 0 THEN a % m ELSE 0 - ((0 - a) % m)

\* ------------------------------------------------------------- variables
VARIABLES
    properties,     \* Menu: the properties of the last setProperties
    children,       \* Menu: this.children, each child's derived properties
    state,          \* Menu: this.state
    activeIndex,    \* Menu: this._activeIndex
    isLabelActive,  \* Menu: this._isLabelActive
    hideTimer,      \* Menu: this._hideTimer, as an index into timers (0: none alive)
    timers,         \* host: the timers created by createTimer that are alive
    focusInside,    \* host: _domNode.contains(document.activeElement)
    focusChecks,    \* host: queued frame callbacks of onMenuFocusOut
    labelNode,      \* Menu: what the last render passed to the label MenuItem
    menuNode,       \* Menu: the menu element of the last render
    id,             \* Menu: this._id
    parent,         \* the Menu this one is nested in, if any
    calls,          \* Menu: owner callbacks invoked by the last handler
    last,           \* Menu: the handler that ran last and its input
    item,           \* MenuItem: its properties
    itemCalls,      \* MenuItem: the last handler, its event, the callbacks it invoked
    itemNode,       \* MenuItem: the properties of the element of its last render
    wasOpen,        \* Menu: this.wasOpen
    element,        \* host: the menu element (key 'menu') and its style.height
    frames,         \* host: the callbacks of animate waiting for the next frame
    frame,          \* host: the number of animation frames run so far
    painted,        \* host: the heights written during the last frame, in order
    projected,      \* host: the `hidden` that the last element callback saw
    animLast        \* host: the element callback or host step that ran last

menuVars == <<properties, children, state, activeIndex, isLabelActive, hideTimer,
              timers, focusInside, focusChecks, labelNode, menuNode, id, parent,
              calls, last>>
itemVars == <<item, itemCalls, itemNode>>
animVars == <<wasOpen, element, frames, frame, painted, projected, animLast>>
outerVars == <<item, itemCalls, itemNode, parent,
               wasOpen, element, frames, frame, painted, projected, animLast>>
vars == <<properties, children, state, activeIndex, isLabelActive, hideTimer,
          timers, focusInside, focusChecks, labelNode, menuNode, id, parent,
          calls, last, item, itemCalls, itemNode,
          wasOpen, element, frames, frame, painted, projected, animLast>>

\* -------------------------------------------------------- Menu: properties
\* Menu.ts 197-199
getDefaultHidden == properties.label

\* `hidden = this.getDefaultHidden()` (Menu.ts 135, 158, 189, 413, 436)
Hidden ==
    IF properties.hidden = "undefined" THEN getDefaultHidden
    ELSE properties.hidden = "true"

\* Menu.ts 201-204
getDefaultOrientation ==
    IF properties.role = "menubar" THEN "horizontal" ELSE "vertical"

\* `orientation = this.getDefaultOrientation()` (Menu.ts 298, 331)
Orientation ==
    IF properties.orientation = "undefined" THEN getDefaultOrientation
    ELSE properties.orientation

\* Menu.ts 299, 332
Keys == IF Orientation = "horizontal" THEN horizontalKeys ELSE verticalKeys

\* a child as the owner passes it: no derived property set yet
FreshChild == [index |-> {}, focusable |-> FALSE, active |-> FALSE]

\* no toggleDisplay call, no callback invoked
NoCalls == [req |-> "none", onRequestShow |-> 0, onRequestHide |-> 0]

\* `callback && callback()` in toggleDisplay(requestShow) (Menu.ts 442, 447):
\* the callback is invoked once when the owner has supplied it
Invoked(requestShow, callback) ==
    [NoCalls EXCEPT !.req = requestShow,
                    ![callback] = IF properties[callback] THEN 1 ELSE 0]

NoTimer == [age |-> 0, delay |-> 0, entered |-> FALSE, requested |-> FALSE]

\* the record of a handler run: its name, the key code of a key event, the
\* _activeIndex before it and, for a timer callback, the timer that fired
Ran(ev, key, prev, timer) == [ev |-> ev, key |-> key, prev |-> prev, timer |-> timer]

Handled(ev) == Ran(ev, 0, 0, NoTimer)

\* ------------------------------------------------------------ Menu: timers
Remove(s, i) == [j \in 1..(Len(s) - 1) |-> IF j < i THEN s[j] ELSE s[j + 1]]

\* `this._hideTimer && this._hideTimer.destroy()` (Menu.ts 386, 399)
destroyHideTimer == IF hideTimer = 0 THEN timers ELSE Remove(timers, hideTimer)

\* marks on the timers that stay alive through a handler: `entered` when a
\* mouse-enter was handled in hover mode, `requested` when an explicit open
\* or close request was made before the timer's delay had elapsed
MarkEntered(ts) == [i \in DOMAIN ts |-> [ts[i] EXCEPT !.entered = TRUE]]
MarkRequested(ts) ==
    [i \in DOMAIN ts |->
        [ts[i] EXCEPT !.requested = (@ \/ ts[i].age < ts[i].delay)]]

\* toggleDisplay with a slip: closing does not reset _activeIndex
toggleDisplayKeepsIndex(requestShow, inactive) ==
    LET show == IF requestShow = "undefined" THEN Hidden ELSE requestShow = "true"
    IN  /\ IF show
           THEN /\ state' = IF ~inactive THEN [state EXCEPT !.active = TRUE] ELSE state
                /\ calls' = Invoked(requestShow, "onRequestShow")
           ELSE /\ state' = [state EXCEPT !.active = FALSE]
                /\ calls' = Invoked(requestShow, "onRequestHide")
        /\ activeIndex' = activeIndex
        /\ properties' = properties

\* toggleDisplay with a slip: the Menu flips its own `hidden` property
toggleDisplaySetsHidden(requestShow, inactive) ==
    LET show == IF requestShow = "undefined" THEN Hidden ELSE requestShow = "true"
    IN  /\ IF show
           THEN /\ state' = IF ~inactive THEN [state EXCEPT !.active = TRUE] ELSE state
                /\ activeIndex' = activeIndex
                /\ calls' = Invoked(requestShow, "onRequestShow")
           ELSE /\ state' = [state EXCEPT !.active = FALSE]
                /\ activeIndex' = 0
                /\ calls' = Invoked(requestShow, "onRequestHide")
        /\ properties' = [properties EXCEPT !.hidden = IF show THEN "false" ELSE "true"]

\* ------------------------------------------- Menu: toggleDisplay (429-449)
\* requestShow is "undefined", "true" or "false"; calls.req keeps it
toggleDisplay(requestShow, inactive) ==
    LET show == IF requestShow = "undefined" THEN Hidden ELSE requestShow = "true"
    IN  /\ IF show
           THEN /\ state' = IF ~inactive THEN [state EXCEPT !.active = TRUE] ELSE state
                /\ activeIndex' = activeIndex
                /\ calls' = Invoked(requestShow, "onRequestShow")
           ELSE /\ state' = [state EXCEPT !.active = FALSE]
                /\ activeIndex' = 0
                /\ calls' = Invoked(requestShow, "onRequestHide")
        /\ properties' = properties

\* a handler path that does not call toggleDisplay
noToggle == /\ calls' = NoCalls
            /\ properties' = properties

\* moveActiveIndex with a slip: the index stops at either end instead of wrapping
moveActiveIndexClamped(operation, previousIndex, max) ==
    IF operation = "decrease"
    THEN IF JsLess(JsAdd(previousIndex, -1), 0) THEN 0 ELSE JsAdd(previousIndex, -1)
    ELSE JsMin(JsAdd(previousIndex, 1), max - 1)

\* --------------------------------------- Menu: moveActiveIndex (236-244)
moveActiveIndex(operation, previousIndex, max) ==
    IF operation = "decrease"
    THEN IF JsLess(JsAdd(previousIndex, -1), 0) THEN max - 1
         ELSE JsAdd(previousIndex, -1)
    ELSE JsMod(JsMin(JsAdd(previousIndex, 1), max), max)

\* ------------------------------------------------ Menu: render (98-155)
\* the values uuid() can return
Uuids == {"uuid-1", "uuid-2"}

\* `id = this._id` (Menu.ts 100, 136): the owner's id, else the generated one
MenuId == IF properties.id = "undefined" THEN id ELSE properties.id

\* no label is rendered (Menu.ts 142)
NoLabel == [active |-> FALSE, expanded |-> FALSE, controls |-> ""]

\* the menu element (Menu.ts 106-116); `generated` tells that the owner gave no id
renderMenu == [id |-> MenuId, generated |-> (properties.id = "undefined")]

\* no menu element has been rendered yet
NoMenu == [id |-> "", generated |-> FALSE]

\* Menu.ts 130-155: the properties of the label MenuItem
renderLabel ==
    IF properties.label
    THEN [active |-> (isLabelActive \/ properties.active), expanded |-> ~Hidden,
          controls |-> MenuId]
    ELSE NoLabel

\* renderChildren with a slip: `_isLabelActive` is not consulted
renderChildrenIgnoresLabel ==
    IF ~Hidden
    THEN [i \in DOMAIN children |->
            [index |-> {i - 1},
             focusable |-> (~properties.label /\ (i - 1) = activeIndex),
             active |-> (state.active /\ (i - 1) = activeIndex)]]
    ELSE children

\* Menu.ts 412-427
renderChildren ==
    LET active == state.active /\ ~isLabelActive
    IN  IF ~Hidden
        THEN [i \in DOMAIN children |->
                [index |-> {i - 1},
                 focusable |-> (~properties.label /\ (i - 1) = activeIndex),
                 active |-> (active /\ (i - 1) = activeIndex)]]
        ELSE children

\* render with a slip: _isLabelActive is cleared before the label is rendered
renderClearsLabelFirst ==
    /\ labelNode' = IF properties.label
                    THEN [active |-> properties.active, expanded |-> ~Hidden,
                          controls |-> MenuId]
                    ELSE NoLabel
    /\ menuNode' = renderMenu
    /\ children' = renderChildren
    /\ isLabelActive' = IF properties.label THEN FALSE ELSE isLabelActive
    /\ last' = Handled("render")
    /\ calls' = NoCalls
    /\ UNCHANGED <<properties, state, activeIndex, hideTimer, timers,
                   focusInside, focusChecks, id>>
    /\ UNCHANGED outerVars

\* render with a slip: without an owner's id each render draws a new uuid
renderDrawsUuid ==
    /\ \E u \in Uuids \ {menuNode.id} :
          LET drawn == IF properties.id = "undefined" THEN u ELSE properties.id
          IN  /\ labelNode' = IF properties.label
                              THEN [renderLabel EXCEPT !.controls = drawn]
                              ELSE NoLabel
              /\ menuNode' = [renderMenu EXCEPT !.id = drawn]
    /\ children' = renderChildren
    /\ isLabelActive' = IF properties.label THEN FALSE ELSE isLabelActive
    /\ last' = Handled("render")
    /\ calls' = NoCalls
    /\ UNCHANGED <<properties, state, activeIndex, hideTimer, timers,
                   focusInside, focusChecks, id>>
    /\ UNCHANGED outerVars

render ==
    /\ labelNode' = renderLabel
    /\ menuNode' = renderMenu
    /\ children' = renderChildren
    /\ isLabelActive' = IF properties.label THEN FALSE ELSE isLabelActive
    /\ last' = Handled("render")
    /\ calls' = NoCalls
    /\ UNCHANGED <<properties, state, activeIndex, hideTimer, timers,
                   focusInside, focusChecks, id>>
    /\ UNCHANGED outerVars

\* --------------------------------------------- Menu: nested in a Menu
\* The top-level Menu of the composition (MenuItem.ts 125-228): horizontal,
\* without a label, its second child of three hosting this Menu.
TopLevel == [children |-> 3, nestedAt |-> 1, orientation |-> "horizontal",
             role |-> "menu", hideOnActivate |-> TRUE]

\* `parent` for a Menu that is nested in no other
NoParent == [nested |-> FALSE, activeIndex |-> 0, active |-> FALSE,
             asked |-> FALSE, trail |-> "idle"]

\* Menu.ts 330-365 run by the top-level Menu p, which has no label, on a key
\* event that has bubbled to its menu element; `asked`: onRequestHide invoked
parentOnMenuKeyDown(p, key) ==
    LET keys == IF TopLevel.orientation = "horizontal" THEN horizontalKeys
                ELSE verticalKeys
    IN  IF key = keys.space
        THEN IF TopLevel.role # "menubar" /\ TopLevel.hideOnActivate
             THEN [p EXCEPT !.active = FALSE, !.activeIndex = 0, !.asked = TRUE]
             ELSE p
        ELSE IF key = keys.tab
        THEN [p EXCEPT !.active = FALSE]
        ELSE IF key = keys.decrease
        THEN [p EXCEPT !.activeIndex = moveActiveIndex("decrease", @, TopLevel.children)]
        ELSE IF key = keys.increase
        THEN [p EXCEPT !.activeIndex = moveActiveIndex("increase", @, TopLevel.children)]
        ELSE p

\* The parent after key event `key` handled by handler ev of this Menu: the
\* event reaches the parent's menu element unless the handler has called
\* event.stopPropagation().  `trail` follows the keys pressed: "descended"
\* after the descend key on the label while the parent has this Menu's item
\* current, "ascended" after the ascend key in the menu right after that;
\* `asked` tells whether the parent was asked to hide since the trail began.
Bubble(ev, key, stopped) ==
    IF ~parent.nested THEN parent
    ELSE LET trail ==
                 IF /\ ev = "labelKeyDown"
                    /\ key = Keys.descend
                    /\ ~properties.disabled
                    /\ parent.active
                    /\ parent.activeIndex = TopLevel.nestedAt
                 THEN "descended"
                 ELSE IF ev = "menuKeyDown" /\ key = Keys.ascend
                         /\ parent.trail = "descended"
                 THEN "ascended"
                 ELSE "idle"
             before == [parent EXCEPT !.trail = trail,
                                      !.asked = (trail = "ascended" /\ parent.asked)]
         IN  IF stopped THEN before ELSE parentOnMenuKeyDown(before, key)

\* ------------------------------------------------------- Menu: handlers
\* onItemActivate with a slip: `role` is not consulted
onItemActivateIgnoresRole ==
    IF properties.hideOnActivate
    THEN toggleDisplay("false", FALSE)
    ELSE noToggle /\ UNCHANGED <<state, activeIndex>>

\* Menu.ts 277-283
onItemActivate ==
    IF properties.role # "menubar" /\ properties.hideOnActivate
    THEN toggleDisplay("false", FALSE)
    ELSE noToggle /\ UNCHANGED <<state, activeIndex>>

\* Menu.ts 188-195
exitMenu ==
    IF properties.label /\ ~Hidden
    THEN /\ isLabelActive' = TRUE
         /\ state' = [state EXCEPT !.active = FALSE]
    ELSE UNCHANGED <<isLabelActive, state>>

\* a click inside the menu: `onclick: this.onItemActivate` (Menu.ts 110)
ItemActivate ==
    /\ onItemActivate
    /\ timers' = IF calls'.req # "none" THEN MarkRequested(timers) ELSE timers
    /\ last' = Handled("itemActivate")
    /\ UNCHANGED <<children, isLabelActive, hideTimer, focusInside, focusChecks,
                   labelNode, menuNode, id>>
    /\ UNCHANGED outerVars

\* onLabelClick with a slip: `expandOnClick` is not consulted
onLabelClickIgnoresExpand ==
    /\ properties.label
    /\ IF ~properties.disabled
       THEN /\ isLabelActive' = TRUE
            /\ toggleDisplay("undefined", FALSE)
       ELSE /\ noToggle
            /\ UNCHANGED <<isLabelActive, state, activeIndex>>
    /\ timers' = IF calls'.req # "none" THEN MarkRequested(timers) ELSE timers
    /\ last' = Handled("labelClick")
    /\ UNCHANGED <<children, hideTimer, focusInside, focusChecks, labelNode, menuNode, id>>
    /\ UNCHANGED outerVars

\* Menu.ts 285-295; the label is rendered only when there is one (142)
onLabelClick ==
    /\ properties.label
    /\ IF ~properties.disabled /\ properties.expandOnClick
       THEN /\ isLabelActive' = TRUE
            /\ toggleDisplay("undefined", FALSE)
       ELSE /\ noToggle
            /\ UNCHANGED <<isLabelActive, state, activeIndex>>
    /\ timers' = IF calls'.req # "none" THEN MarkRequested(timers) ELSE timers
    /\ last' = Handled("labelClick")
    /\ UNCHANGED <<children, hideTimer, focusInside, focusChecks, labelNode, menuNode, id>>
    /\ UNCHANGED outerVars

\* onLabelKeyDown with a slip: the descend key toggles instead of opening
onLabelKeyDownDescendToggles(key) ==
    /\ properties.label
    /\ ~focusInside
    /\ IF ~properties.disabled /\ key \in {Keys.enter, Keys.descend}
       THEN toggleDisplay("undefined", FALSE)
       ELSE noToggle /\ UNCHANGED <<state, activeIndex>>
    /\ timers' = IF calls'.req # "none" THEN MarkRequested(timers) ELSE timers
    /\ last' = Ran("labelKeyDown", key, 0, NoTimer)
    /\ parent' = Bubble("labelKeyDown", key, FALSE)
    /\ UNCHANGED <<children, isLabelActive, hideTimer, focusInside, focusChecks,
                   labelNode, menuNode, id>>
    /\ UNCHANGED itemVars
    /\ UNCHANGED animVars

\* Menu.ts 297-311; the key event comes from the label, which has the focus
\* and lies outside the menu element (Menu.ts 124)
onLabelKeyDown(key) ==
    /\ properties.label
    /\ ~focusInside
    /\ IF ~properties.disabled /\ key = Keys.enter
       THEN toggleDisplay("undefined", FALSE)
       ELSE IF ~properties.disabled /\ key = Keys.descend
       THEN toggleDisplay("true", FALSE)
       ELSE noToggle /\ UNCHANGED <<state, activeIndex>>
    /\ timers' = IF calls'.req # "none" THEN MarkRequested(timers) ELSE timers
    /\ last' = Ran("labelKeyDown", key, 0, NoTimer)
    /\ parent' = Bubble("labelKeyDown", key, FALSE)
    /\ UNCHANGED <<children, isLabelActive, hideTimer, focusInside, focusChecks,
                   labelNode, menuNode, id>>
    /\ UNCHANGED itemVars
    /\ UNCHANGED animVars

\* Menu.ts 313-315; focus has moved to a descendant of the menu element
onMenuFocus ==
    /\ ~focusInside
    /\ Len(children) > 0
    /\ focusInside' = TRUE
    /\ state' = IF ~state.active THEN [state EXCEPT !.active = TRUE] ELSE state
    /\ noToggle
    /\ last' = Handled("focus")
    /\ UNCHANGED <<children, activeIndex, isLabelActive, hideTimer, timers,
                   focusChecks, labelNode, menuNode, id>>
    /\ UNCHANGED outerVars

\* Menu.ts 317-328; focus has left an element of the menu
onMenuFocusOut ==
    /\ focusInside
    /\ focusInside' = FALSE
    /\ IF properties.label
       THEN /\ focusChecks < MaxFrames
            /\ focusChecks' = focusChecks + 1
            /\ state' = state
       ELSE /\ focusChecks' = focusChecks
            /\ state' = [state EXCEPT !.active = FALSE]
    /\ noToggle
    /\ last' = Handled("focusOut")
    /\ UNCHANGED <<children, activeIndex, isLabelActive, hideTimer, timers,
                   labelNode, menuNode, id>>
    /\ UNCHANGED outerVars

\* Menu.ts 319-323: the frame callback queued by onMenuFocusOut
FocusCheck ==
    /\ focusChecks > 0
    /\ focusChecks' = focusChecks - 1
    /\ state' = IF ~focusInside THEN [state EXCEPT !.active = FALSE] ELSE state
    /\ noToggle
    /\ last' = Handled("focusCheck")
    /\ UNCHANGED <<children, activeIndex, isLabelActive, hideTimer, timers,
                   focusInside, labelNode, menuNode, id>>
    /\ UNCHANGED outerVars

\* Menu.ts 330-365; a key event reaches the menu element from the focused
\* descendant
onMenuKeyDown(key) ==
    /\ focusInside
    /\ IF key = Keys.space
       THEN /\ onItemActivate
            /\ UNCHANGED isLabelActive
       ELSE IF key = Keys.tab
       THEN /\ state' = [state EXCEPT !.active = FALSE]
            /\ noToggle
            /\ UNCHANGED <<activeIndex, isLabelActive>>
       ELSE IF key = Keys.ascend
       THEN /\ exitMenu
            /\ noToggle
            /\ UNCHANGED activeIndex
       ELSE IF key = Keys.decrease
       THEN /\ activeIndex' = moveActiveIndex("decrease", activeIndex, Len(children))
            /\ noToggle
            /\ UNCHANGED <<state, isLabelActive>>
       ELSE IF key = Keys.increase
       THEN /\ activeIndex' = moveActiveIndex("increase", activeIndex, Len(children))
            /\ noToggle
            /\ UNCHANGED <<state, isLabelActive>>
       ELSE IF key = Keys.escape /\ properties.label
       THEN /\ isLabelActive' = TRUE
            /\ toggleDisplay("false", FALSE)
       ELSE /\ noToggle
            /\ UNCHANGED <<state, activeIndex, isLabelActive>>
    /\ timers' = IF calls'.req # "none" THEN MarkRequested(timers) ELSE timers
    /\ last' = Ran("menuKeyDown", key,
                    IF key \in {Keys.decrease, Keys.increase} THEN activeIndex ELSE 0,
                    NoTimer)
    /\ parent' = Bubble("menuKeyDown", key,
                        \/ key \in {Keys.tab, Keys.ascend, Keys.decrease, Keys.increase}
                        \/ (key = Keys.escape /\ properties.label))
    /\ UNCHANGED <<children, hideTimer, focusInside, focusChecks, labelNode, menuNode, id>>
    /\ UNCHANGED itemVars
    /\ UNCHANGED animVars

\* the data-dojo-index values a mousedown target can resolve to: those the
\* last visible render gave the children (Menu.ts 419), or none (NaN)
IndexMarkers == UNION {children[i].index : i \in DOMAIN children} \cup {NaN}

\* Menu.ts 367-377
onMenuMouseDown(index) ==
    /\ activeIndex' = IF ~IsNaN(index) THEN index ELSE activeIndex
    /\ noToggle
    /\ last' = Handled("mouseDown")
    /\ UNCHANGED <<children, state, isLabelActive, hideTimer, timers, focusInside,
                   focusChecks, labelNode, menuNode, id>>
    /\ UNCHANGED outerVars

\* onMenuMouseEnter with a slip: the pending hide timer is not destroyed
onMenuMouseEnterKeepsTimer ==
    /\ properties.label
    /\ IF ~properties.disabled /\ ~properties.expandOnClick
       THEN /\ timers' = MarkEntered(timers)
            /\ hideTimer' = hideTimer
            /\ toggleDisplay("true", TRUE)
       ELSE /\ noToggle
            /\ UNCHANGED <<timers, hideTimer, state, activeIndex>>
    /\ last' = Handled("mouseEnter")
    /\ UNCHANGED <<children, isLabelActive, focusInside, focusChecks, labelNode, menuNode, id>>
    /\ UNCHANGED outerVars

\* onMenuMouseEnter with a slip: `disabled` is not consulted
onMenuMouseEnterIgnoresDisabled ==
    /\ properties.label
    /\ IF ~properties.expandOnClick
       THEN /\ timers' = MarkEntered(destroyHideTimer)
            /\ hideTimer' = 0
            /\ toggleDisplay("true", TRUE)
       ELSE /\ noToggle
            /\ UNCHANGED <<timers, hideTimer, state, activeIndex>>
    /\ last' = Handled("mouseEnter")
    /\ UNCHANGED <<children, isLabelActive, focusInside, focusChecks, labelNode, menuNode, id>>
    /\ UNCHANGED outerVars

\* Menu.ts 379-389; bound on the root rendered around a label (118-124)
onMenuMouseEnter ==
    /\ properties.label
    /\ IF ~properties.disabled /\ ~properties.expandOnClick
       THEN /\ timers' = MarkEntered(destroyHideTimer)
            /\ hideTimer' = 0
            /\ toggleDisplay("true", TRUE)
       ELSE /\ noToggle
            /\ UNCHANGED <<timers, hideTimer, state, activeIndex>>
    /\ last' = Handled("mouseEnter")
    /\ UNCHANGED <<children, isLabelActive, focusInside, focusChecks, labelNode, menuNode, id>>
    /\ UNCHANGED outerVars

\* onMenuMouseLeave with a slip: the pending timer is not destroyed first
onMenuMouseLeaveKeepsTimer ==
    /\ properties.label
    /\ IF ~properties.disabled /\ ~properties.expandOnClick
       THEN IF properties.hideDelay # 0
            THEN /\ Len(timers) < MaxTimers
                 /\ timers' = Append(timers,
                                     [age |-> 0, delay |-> properties.hideDelay,
                                      entered |-> FALSE, requested |-> FALSE])
                 /\ hideTimer' = Len(timers')
                 /\ noToggle
                 /\ UNCHANGED <<state, activeIndex>>
            ELSE /\ timers' = destroyHideTimer
                 /\ hideTimer' = 0
                 /\ toggleDisplay("false", FALSE)
       ELSE /\ noToggle
            /\ UNCHANGED <<timers, hideTimer, state, activeIndex>>
    /\ last' = Ran("mouseLeave", 0, 0, NoTimer)
    /\ UNCHANGED <<children, isLabelActive, focusInside, focusChecks, labelNode, menuNode, id>>
    /\ UNCHANGED outerVars

\* Menu.ts 391-410; `last` keeps the pending timer that the handler destroyed
onMenuMouseLeave ==
    /\ properties.label
    /\ IF ~properties.disabled /\ ~properties.expandOnClick
       THEN IF properties.hideDelay # 0
            THEN /\ Len(destroyHideTimer) < MaxTimers
                 /\ timers' = Append(destroyHideTimer,
                                     [age |-> 0, delay |-> properties.hideDelay,
                                      entered |-> FALSE, requested |-> FALSE])
                 /\ hideTimer' = Len(timers')
                 /\ noToggle
                 /\ UNCHANGED <<state, activeIndex>>
            ELSE /\ timers' = destroyHideTimer
                 /\ hideTimer' = 0
                 /\ toggleDisplay("false", FALSE)
       ELSE /\ noToggle
            /\ UNCHANGED <<timers, hideTimer, state, activeIndex>>
    /\ last' = Ran("mouseLeave", 0, 0,
                   IF ~properties.disabled /\ ~properties.expandOnClick /\ hideTimer # 0
                   THEN timers[hideTimer] ELSE NoTimer)
    /\ UNCHANGED <<children, isLabelActive, focusInside, focusChecks, labelNode, menuNode, id>>
    /\ UNCHANGED outerVars

\* Menu.ts 401-403: the callback of timer i, run once its delay has elapsed
hideTimerFired(i) ==
    /\ timers[i].age >= timers[i].delay
    /\ timers' = Remove(timers, i)
    /\ hideTimer' = IF hideTimer = i THEN 0
                    ELSE IF hideTimer > i THEN hideTimer - 1 ELSE hideTimer
    /\ toggleDisplay("false", FALSE)
    /\ last' = Ran("hideTimer", 0, 0, timers[i])
    /\ UNCHANGED <<children, isLabelActive, focusInside, focusChecks, labelNode, menuNode, id>>
    /\ UNCHANGED outerVars

\* one tick of the host's clock: every running timer is one tick older
Tick ==
    /\ \E i \in DOMAIN timers : timers[i].age < timers[i].delay
    /\ timers' = [i \in DOMAIN timers |->
                    IF timers[i].age < timers[i].delay
                    THEN [timers[i] EXCEPT !.age = @ + 1] ELSE timers[i]]
    /\ noToggle
    /\ last' = Handled("tick")
    /\ UNCHANGED <<children, state, activeIndex, isLabelActive, hideTimer,
                   focusInside, focusChecks, labelNode, menuNode, id>>
    /\ UNCHANGED outerVars

\* ------------------------------------------------------------- MenuItem
\* the events the DOM delivers to a MenuItem
ClickEvents == [type : {"click"}, keyCode : {0}, id : 1..MaxEvents]
KeyEvents == [type : {"keydown"}, keyCode : KeyCodes, id : {0}]

\* the callbacks invoked by a MenuItem handler, each with its arguments, and
\* the number of calls of event.target.click(), which no handler makes
\* (MenuItem.ts 94-106)
ItemRan(ev, event, clicks, keydowns) ==
    [ev |-> ev, event |-> event, onClick |-> clicks, onKeydown |-> keydowns,
     targetClicks |-> 0]

NoEvent == [type |-> "none", keyCode |-> 0, id |-> 0]

\* onClick with a slip: `disabled` is not consulted
onClickIgnoresDisabled(event) ==
    /\ itemCalls' = ItemRan("click", event, IF item.onClick THEN <<event>> ELSE <<>>, <<>>)
    /\ UNCHANGED <<item, itemNode>>
    /\ UNCHANGED menuVars
    /\ UNCHANGED animVars

\* MenuItem.ts 94-99; item.onClick: `typeof onClick === 'function'`
onClick(event) ==
    /\ itemCalls' = ItemRan("click", event,
                            IF ~item.disabled /\ item.onClick THEN <<event>> ELSE <<>>,
                            <<>>)
    /\ UNCHANGED <<item, itemNode>>
    /\ UNCHANGED menuVars
    /\ UNCHANGED animVars

\* MenuItem.ts 101-106; item.onKeydown: `typeof onKeydown === 'function'`
onKeydown(event) ==
    /\ itemCalls' = ItemRan("keydown", event, <<>>,
                            IF item.onKeydown THEN <<event>> ELSE <<>>)
    /\ UNCHANGED <<item, itemNode>>
    /\ UNCHANGED menuVars
    /\ UNCHANGED animVars

\* the owner passes new properties p (MenuItem.ts 41-54)
itemSetProperties(p) ==
    /\ p # item
    /\ item' = p
    /\ itemCalls' = ItemRan("setProperties", NoEvent, <<>>, <<>>)
    /\ UNCHANGED itemNode
    /\ UNCHANGED menuVars
    /\ UNCHANGED animVars

\* no element has been rendered yet
NoItemNode == [tabIndex |-> 0, role |-> "none"]

\* render with a slip: the owner's tabIndex is kept on a disabled MenuItem
itemRenderKeepsTabIndex ==
    /\ itemNode' = [tabIndex |-> IF item.tabIndex = {} THEN 0
                                 ELSE CHOOSE t \in item.tabIndex : TRUE,
                    role |-> "menuitem"]
    /\ itemCalls' = ItemRan("render", NoEvent, <<>>, <<>>)
    /\ UNCHANGED item
    /\ UNCHANGED menuVars
    /\ UNCHANGED animVars

\* MenuItem.ts 60-92: `tabIndex = 0` (70), `role: 'menuitem'` (89),
\* `tabIndex : disabled ? -1 : tabIndex` (90); item.tabIndex is the empty set
\* when the owner gives none; `type` is not among the properties read
itemRender ==
    /\ LET tabIndex == IF item.tabIndex = {} THEN 0
                       ELSE CHOOSE t \in item.tabIndex : TRUE
       IN  itemNode' = [tabIndex |-> IF item.disabled THEN 0 - 1 ELSE tabIndex,
                        role |-> "menuitem"]
    /\ itemCalls' = ItemRan("render", NoEvent, <<>>, <<>>)
    /\ UNCHANGED item
    /\ UNCHANGED menuVars
    /\ UNCHANGED animVars

\* the values an owner gives as tabIndex, and as type
TabIndexes == (0 - 1)..MaxTabIndex
ItemTypes == {"undefined", "item", "checkbox", "radio"}

ItemProperties ==
    [disabled : BOOLEAN, onClick : BOOLEAN, onKeydown : BOOLEAN,
     tabIndex : {{}} \cup {{t} : t \in TabIndexes}, type : ItemTypes]

InitItem ==
    /\ item \in ItemProperties
    /\ itemCalls = ItemRan("init", NoEvent, <<>>, <<>>)
    /\ itemNode = NoItemNode

ItemIdle ==
    /\ item = [disabled |-> FALSE, onClick |-> FALSE, onKeydown |-> FALSE,
               tabIndex |-> {}, type |-> "undefined"]
    /\ itemCalls = ItemRan("init", NoEvent, <<>>, <<>>)
    /\ itemNode = NoItemNode

\* ---------------------------------------------------------- Menu: owner
\* ------------------------------------------------- Menu: height animation
AnimateValues == {"undefined", "true", "false"}

\* `animate = true` in the destructurings of Menu.ts 207, 248, 261
Animate == properties.animate # "false"

\* the menu element before the projector has created it; its height comes
\* from the stylesheet, which gives it a transition on height
NoElement == [created |-> FALSE, height |-> "unset", transition |-> "idle"]

\* Menu.ts 90 (`wasOpen = false`) and a host that has rendered nothing yet
NoAnimation ==
    /\ wasOpen = FALSE
    /\ element = NoElement
    /\ frames = <<>>
    /\ frame = 0
    /\ painted = <<>>
    /\ projected = "none"
    /\ animLast = "init"

\* Menu.ts 246-257, called by the projector for the element of the first
\* render; element.created stands for `_initialRender = false` as well
onElementCreated ==
    /\ ~element.created
    /\ wasOpen' = ~Hidden
    /\ element' = [element EXCEPT !.created = TRUE,
                                  !.height = IF Animate /\ Hidden THEN "0" ELSE @]
    /\ projected' = properties.hidden
    /\ animLast' = "created"
    /\ UNCHANGED <<frames, frame, painted>>
    /\ UNCHANGED menuVars
    /\ UNCHANGED itemVars

\* animate with a slip: the comparison with wasOpen is left out
animateAlways ==
    Append(frames, [kind |-> "animate", hidden |-> Hidden, measured |-> 0])

\* Menu.animate up to its requestAnimationFrame call (Menu.ts 157-166): the
\* queue of frame callbacks it leaves; the callback keeps the `hidden` read here
animate ==
    IF wasOpen # Hidden
    THEN frames
    ELSE Append(frames, [kind |-> "animate", hidden |-> Hidden, measured |-> 0])

\* Menu.ts 259-275, called by the projector for the element of every later render
onElementUpdated ==
    /\ element.created
    /\ IF ~properties.label
       THEN UNCHANGED <<element, frames>>
       ELSE IF ~Animate
       THEN /\ element' = [element EXCEPT !.height = "unset"]
            /\ UNCHANGED frames
       ELSE /\ Len(animate) <= MaxQueued
            /\ frames' = animate
            /\ UNCHANGED element
    /\ projected' = properties.hidden
    /\ animLast' = "updated"
    /\ UNCHANGED <<wasOpen, frame, painted>>
    /\ UNCHANGED menuVars
    /\ UNCHANGED itemVars

\* a write of style.height while the stylesheet's transition applies starts a
\* transition when the height changes
Transitioned(el, height) ==
    [el EXCEPT !.height = height,
               !.transition = IF el.height # height THEN "running" ELSE @]

\* the frame callbacks with a slip: a close writes '0' in the callback that
\* writes the measured height
RunCallbackZeroAtOnce(cb, st, n) ==
    IF cb.kind = "zero"
    THEN [st EXCEPT !.element = Transitioned(st.element, "0"),
                    !.painted = Append(@, [height |-> "0", measured |-> cb.measured])]
    ELSE IF cb.hidden
    THEN [st EXCEPT !.wasOpen = FALSE,
                    !.element = Transitioned(st.element, "0"),
                    !.painted = @ \o <<[height |-> "px", measured |-> n],
                                       [height |-> "0", measured |-> n]>>]
    ELSE [st EXCEPT !.wasOpen = TRUE,
                    !.element = Transitioned(st.element, "px"),
                    !.painted = Append(@, [height |-> "px", measured |-> n])]

\* one frame callback, run in frame n. The callback of animate (Menu.ts
\* 166-185) sets wasOpen and writes the measured height, for a close with the
\* transition taken off (172-176) and with a callback for the next frame; that
\* callback (177-179) writes '0'
RunCallback(cb, st, n) ==
    IF cb.kind = "zero"
    THEN [st EXCEPT !.element = Transitioned(st.element, "0"),
                    !.painted = Append(@, [height |-> "0", measured |-> cb.measured])]
    ELSE IF cb.hidden
    THEN [st EXCEPT !.wasOpen = FALSE,
                    !.element = [st.element EXCEPT !.height = "px"],
                    !.queued = Append(@, [kind |-> "zero", hidden |-> TRUE,
                                          measured |-> n]),
                    !.painted = Append(@, [height |-> "px", measured |-> n])]
    ELSE [st EXCEPT !.wasOpen = TRUE,
                    !.element = Transitioned(st.element, "px"),
                    !.painted = Append(@, [height |-> "px", measured |-> n])]

RECURSIVE RunCallbacks(_, _, _)
RunCallbacks(queue, st, n) ==
    IF queue = <<>> THEN st
    ELSE RunCallbacks(Tail(queue), RunCallback(Head(queue), st, n), n)

\* the host runs an animation frame: the callbacks queued before it, in the
\* order of their requests; those requested meanwhile wait for the next frame
Frame ==
    /\ frames # <<>>
    /\ frame < MaxPaints
    /\ LET st == RunCallbacks(frames,
                              [wasOpen |-> wasOpen, element |-> element,
                               queued |-> <<>>, painted |-> <<>>],
                              frame + 1)
       IN  /\ wasOpen' = st.wasOpen
           /\ element' = st.element
           /\ frames' = st.queued
           /\ painted' = st.painted
    /\ frame' = frame + 1
    /\ animLast' = "frame"
    /\ UNCHANGED projected
    /\ UNCHANGED menuVars
    /\ UNCHANGED itemVars

\* the host ends a running transition; Menu.ts adds no transitionend listener
TransitionEnd ==
    /\ element.transition = "running"
    /\ element' = [element EXCEPT !.transition = "ended"]
    /\ animLast' = "transitionEnd"
    /\ UNCHANGED <<wasOpen, frames, frame, painted, projected>>
    /\ UNCHANGED menuVars
    /\ UNCHANGED itemVars

HiddenValues == {"undefined", "true", "false"}

\* the owner passes new properties p (Menu.ts 37-53)
setProperties(p) ==
    /\ p # properties
    /\ properties' = p
    /\ calls' = NoCalls
    /\ last' = Handled("setProperties")
    /\ UNCHANGED <<children, state, activeIndex, isLabelActive, hideTimer, timers,
                   focusInside, focusChecks, labelNode, menuNode, id>>
    /\ UNCHANGED outerVars

\* the owner passes a new list of n children (Menu.ts 237, 417)
setChildren(n) ==
    /\ n # Len(children)
    /\ children' = [i \in 1..n |-> FreshChild]
    /\ calls' = NoCalls
    /\ last' = Handled("setChildren")
    /\ UNCHANGED <<properties, state, activeIndex, isLabelActive, hideTimer, timers,
                   focusInside, focusChecks, labelNode, menuNode, id>>
    /\ UNCHANGED outerVars

\* Menu.ts 90-96: a Menu as constructed, with the properties and children of
\* its first render
InitMenu ==
    /\ properties \in [label : BOOLEAN, hidden : HiddenValues, disabled : BOOLEAN,
                       expandOnClick : BOOLEAN, hideDelay : 0..MaxDelay,
                       hideOnActivate : BOOLEAN, role : {"menu", "menubar"},
                       orientation : {"undefined", "horizontal", "vertical"},
                       active : BOOLEAN, onRequestShow : BOOLEAN,
                       onRequestHide : BOOLEAN, id : {"undefined", "owner-id"},
                       animate : AnimateValues]
    /\ \E n \in 0..MaxChildren : children = [i \in 1..n |-> FreshChild]
    /\ state = [active |-> FALSE]
    /\ activeIndex = 0
    /\ isLabelActive = FALSE
    /\ hideTimer = 0
    /\ timers = <<>>
    /\ focusInside = FALSE
    /\ focusChecks = 0
    /\ labelNode = NoLabel
    /\ menuNode = NoMenu
    /\ id \in Uuids
    /\ parent \in {NoParent} \cup
                   [nested : {TRUE}, activeIndex : 0..(TopLevel.children - 1),
                    active : BOOLEAN, asked : {FALSE}, trail : {"idle"}]
    /\ calls = NoCalls
    /\ last = Handled("init")
    /\ NoAnimation

\* a Menu that is nested in no other and whose owner gives it no id; _id holds
\* the one value uuid() returned
Standalone ==
    /\ properties.id = "undefined"
    /\ id = "uuid-1"
    /\ parent = NoParent

\* ------------------------------------------------------ specifications
\* In each specification of the Menu the owner has supplied onRequestShow and
\* onRequestHide.

\* Keyboard navigation and rendering: a menu that is enabled and opens on
\* click, under key, mouse-down, click and focus events, renders, and an
\* owner that changes `hidden` and the children.
InitNav ==
    /\ InitMenu
    /\ properties.animate = "undefined"
    /\ Standalone
    /\ properties.onRequestShow
    /\ properties.onRequestHide
    /\ ~properties.disabled
    /\ properties.expandOnClick
    /\ properties.hideDelay = 0
    /\ properties.hideOnActivate
    /\ properties.role = "menu"
    /\ properties.orientation # "vertical"
    /\ ~properties.active
    /\ ItemIdle

NextNav ==
    \/ render
    \/ ItemActivate
    \/ onMenuFocus
    \/ onMenuFocusOut
    \/ FocusCheck
    \/ \E key \in KeyCodes : onMenuKeyDown(key)
    \/ \E index \in IndexMarkers : onMenuMouseDown(index)
    \/ \E hidden \in HiddenValues :
           setProperties([properties EXCEPT !.hidden = hidden])
    \/ \E n \in 0..MaxChildren : setChildren(n)

SpecNav == InitNav /\ [][NextNav]_vars

\* Hover mode and the hide timer: a labelled vertical menu of MaxChildren
\* children, under mouse, timer, label, focus, key and click events, and an
\* owner that changes `hidden` and `disabled`.
InitHover ==
    /\ InitMenu
    /\ properties.animate = "undefined"
    /\ Standalone
    /\ properties.onRequestShow
    /\ properties.onRequestHide
    /\ properties.label
    /\ properties.hideOnActivate
    /\ properties.role = "menu"
    /\ properties.orientation = "undefined"
    /\ ~properties.active
    /\ Len(children) = MaxChildren
    /\ ItemIdle

NextHover ==
    \/ onMenuMouseEnter
    \/ onMenuMouseLeave
    \/ \E i \in DOMAIN timers : hideTimerFired(i)
    \/ Tick
    \/ onLabelClick
    \/ \E key \in KeyCodes : onLabelKeyDown(key)
    \/ onMenuFocus
    \/ onMenuFocusOut
    \/ FocusCheck
    \/ \E key \in KeyCodes : onMenuKeyDown(key)
    \/ ItemActivate
    \/ \E hidden \in HiddenValues, disabled \in BOOLEAN :
           setProperties([properties EXCEPT !.hidden = hidden, !.disabled = disabled])

SpecHover == InitHover /\ [][NextHover]_vars

\* Every handler of the Menu, on a labelled vertical menu of one child whose
\* hideDelay is MaxDelay, and an owner that changes `hidden` and `disabled`.
InitAll ==
    /\ InitMenu
    /\ properties.animate = "undefined"
    /\ Standalone
    /\ properties.onRequestShow
    /\ properties.onRequestHide
    /\ properties.label
    /\ properties.hideDelay = MaxDelay
    /\ properties.hideOnActivate
    /\ properties.role = "menu"
    /\ properties.orientation = "undefined"
    /\ ~properties.active
    /\ Len(children) = 1
    /\ ItemIdle

Next ==
    \/ render
    \/ ItemActivate
    \/ onLabelClick
    \/ \E key \in KeyCodes : onLabelKeyDown(key)
    \/ onMenuFocus
    \/ onMenuFocusOut
    \/ FocusCheck
    \/ \E key \in KeyCodes : onMenuKeyDown(key)
    \/ \E index \in IndexMarkers : onMenuMouseDown(index)
    \/ onMenuMouseEnter
    \/ onMenuMouseLeave
    \/ \E i \in DOMAIN timers : hideTimerFired(i)
    \/ Tick
    \/ \E hidden \in HiddenValues, disabled \in BOOLEAN :
           setProperties([properties EXCEPT !.hidden = hidden, !.disabled = disabled])

Spec == InitAll /\ [][Next]_vars

\* Key maps and activation: a Menu of MaxChildren children of either
\* orientation and role, with or without a label, hidden or visible, enabled
\* or disabled, under label, key, click and focus events and renders.
InitKeys ==
    /\ InitMenu
    /\ properties.animate = "undefined"
    /\ Standalone
    /\ properties.onRequestShow
    /\ properties.onRequestHide
    /\ properties.expandOnClick
    /\ properties.hideDelay = 0
    /\ ~properties.active
    /\ Len(children) = MaxChildren
    /\ ItemIdle

NextKeys ==
    \/ render
    \/ ItemActivate
    \/ onLabelClick
    \/ \E key \in KeyCodes : onLabelKeyDown(key)
    \/ onMenuFocus
    \/ onMenuFocusOut
    \/ FocusCheck
    \/ \E key \in KeyCodes : onMenuKeyDown(key)

SpecKeys == InitKeys /\ [][NextKeys]_vars

\* Identity: a Menu of one child whose owner gives and withdraws an id and
\* changes `hidden`, under renders and label and focus events.
InitId ==
    /\ InitMenu
    /\ properties.animate = "undefined"
    /\ parent = NoParent
    /\ properties.onRequestShow
    /\ properties.onRequestHide
    /\ ~properties.disabled
    /\ properties.expandOnClick
    /\ properties.hideDelay = 0
    /\ properties.hideOnActivate
    /\ properties.role = "menu"
    /\ properties.orientation = "undefined"
    /\ ~properties.active
    /\ Len(children) = 1
    /\ ItemIdle

NextId ==
    \/ render
    \/ onLabelClick
    \/ onMenuFocus
    \/ onMenuFocusOut
    \/ FocusCheck
    \/ \E hidden \in HiddenValues, given \in {"undefined", "owner-id"} :
           setProperties([properties EXCEPT !.hidden = hidden, !.id = given])

SpecId == InitId /\ [][NextId]_vars

\* Nesting: a vertical Menu with a label and MaxChildren children, hosted by
\* the second item of the top-level Menu, under key and focus events and
\* renders; the owner answers the requests by changing `hidden`, and the
\* top-level Menu's render marks this Menu active when it is its current item.
InitNested ==
    /\ InitMenu
    /\ properties.animate = "undefined"
    /\ properties.id = "undefined"
    /\ id = "uuid-1"
    /\ parent.nested
    /\ parent.active
    /\ properties.onRequestShow
    /\ properties.onRequestHide
    /\ properties.label
    /\ properties.hidden = "true"
    /\ ~properties.disabled
    /\ properties.expandOnClick
    /\ properties.hideDelay = 0
    /\ properties.hideOnActivate
    /\ properties.role = "menu"
    /\ properties.orientation = "vertical"
    /\ properties.active = (parent.activeIndex = TopLevel.nestedAt)
    /\ Len(children) = MaxChildren
    /\ ItemIdle

NextNested ==
    \/ render
    \/ \E key \in KeyCodes : onLabelKeyDown(key)
    \/ onMenuFocus
    \/ onMenuFocusOut
    \/ FocusCheck
    \/ \E key \in KeyCodes : onMenuKeyDown(key)
    \/ \E hidden \in {"true", "false"} :
           setProperties([properties EXCEPT
                            !.hidden = hidden,
                            !.active = (/\ parent.active
                                        /\ parent.activeIndex = TopLevel.nestedAt)])

SpecNested == InitNested /\ [][NextNested]_vars

\* Animation: a Menu of one child, with or without a label and with or
\* without `animate`, whose owner changes `hidden`; the projector creates and
\* updates the menu element and the host runs frames and ends transitions.
InitAnim ==
    /\ InitMenu
    /\ Standalone
    /\ properties.onRequestShow
    /\ properties.onRequestHide
    /\ ~properties.disabled
    /\ properties.expandOnClick
    /\ properties.hideDelay = 0
    /\ properties.hideOnActivate
    /\ properties.role = "menu"
    /\ properties.orientation = "undefined"
    /\ ~properties.active
    /\ Len(children) = 1
    /\ ItemIdle

NextAnim ==
    \/ onElementCreated
    \/ onElementUpdated
    \/ Frame
    \/ TransitionEnd
    \/ \E hidden \in HiddenValues :
           setProperties([properties EXCEPT !.hidden = hidden])

SpecAnim == InitAnim /\ [][NextAnim]_vars

\* A MenuItem under click and keydown events and an owner that changes its
\* properties; the Menu does not take part.
MenuIdle ==
    /\ properties = [label |-> FALSE, hidden |-> "undefined", disabled |-> FALSE,
                     expandOnClick |-> TRUE, hideDelay |-> 0, hideOnActivate |-> TRUE,
                     role |-> "menu", orientation |-> "undefined", active |-> FALSE,
                     onRequestShow |-> FALSE, onRequestHide |-> FALSE,
                     id |-> "undefined", animate |-> "undefined"]
    /\ children = <<>>
    /\ state = [active |-> FALSE]
    /\ activeIndex = 0
    /\ isLabelActive = FALSE
    /\ hideTimer = 0
    /\ timers = <<>>
    /\ focusInside = FALSE
    /\ focusChecks = 0
    /\ labelNode = NoLabel
    /\ menuNode = NoMenu
    /\ id = "uuid-1"
    /\ parent = NoParent
    /\ calls = NoCalls
    /\ last = Handled("init")
    /\ NoAnimation

NextItem ==
    \/ \E event \in ClickEvents : onClick(event)
    \/ \E event \in KeyEvents : onKeydown(event)
    \/ \E p \in ItemProperties : itemSetProperties(p)
    \/ itemRender

InitItemAlone == MenuIdle /\ InitItem

SpecItem == InitItemAlone /\ [][NextItem]_vars

\* =============================================================== claims

\* C1: whenever the Menu has children, 0 <= activeIndex < childCount, in every
\* state reachable by key, mouse-down and close events and by renders with a
\* changed number of children.
ActiveIndexInRange ==
    Len(children) > 0 => (0 <= activeIndex /\ activeIndex < Len(children))

\* C2: from an index i in [0, childCount) with childCount >= 1, the decrease
\* key yields childCount - 1 when i = 0 and i - 1 otherwise; the increase key
\* yields 0 when i = childCount - 1 and i + 1 otherwise.
MoveWrapsAround ==
    LET n == Len(children)
        i == last.prev
    IN  (last.ev = "menuKeyDown" /\ n >= 1 /\ i \in 0..(n - 1)) =>
            /\ last.key = Keys.decrease =>
                   /\ activeIndex = (IF i = 0 THEN n - 1 ELSE i - 1)
                   /\ activeIndex = (i + n - 1) % n
            /\ last.key = Keys.increase =>
                   /\ activeIndex = (IF i = n - 1 THEN 0 ELSE i + 1)
                   /\ activeIndex = (i + 1) % n

\* the increase key has wrapped from the last of at least two children to the first
MoveWrappedSeen ==
    /\ last.ev = "menuKeyDown"
    /\ last.key = Keys.increase
    /\ Len(children) >= 2
    /\ last.prev = Len(children) - 1
    /\ activeIndex = 0

\* C3: a click on a disabled MenuItem never invokes the owner's onClick; a
\* click on an enabled one invokes it exactly once, with the event.
ClickRespectsDisabled ==
    itemCalls.ev = "click" =>
        /\ item.disabled => itemCalls.onClick = <<>>
        /\ (~item.disabled /\ item.onClick) => itemCalls.onClick = <<itemCalls.event>>

\* a disabled MenuItem with an onClick callback has handled a click
DisabledClickSeen ==
    /\ itemCalls.ev = "click"
    /\ item.disabled
    /\ item.onClick

\* C4: a keydown on a disabled MenuItem never invokes the owner's keydown
\* callback; on an enabled one the callback is invoked with the event.
KeydownRespectsDisabled ==
    itemCalls.ev = "keydown" =>
        /\ item.disabled => itemCalls.onKeydown = <<>>
        /\ (~item.disabled /\ item.onKeydown) => itemCalls.onKeydown = <<itemCalls.event>>

\* C5: a hide timer started by a mouse-leave calls back only once its
\* hideDelay (> 0) has fully elapsed, and never after a mouse-enter that was
\* handled in hover mode while it was pending.
HideWaitsForDelay ==
    last.ev = "hideTimer" =>
        /\ last.timer.delay > 0
        /\ last.timer.age >= last.timer.delay
        /\ ~last.timer.entered

\* a hide timer has run out and requested the hide
TimedHideSeen ==
    /\ last.ev = "hideTimer"
    /\ last.timer.delay > 0
    /\ calls.onRequestHide = 1

\* C6: a hide timer never calls back after an explicit open or close request
\* (label click, label Enter or descend key, Escape, item activation) that
\* was made while it was pending.
RequestCancelsHideTimer ==
    last.ev = "hideTimer" => ~last.timer.requested

\* C7: Escape in a Menu with a label requests the hide, leaves state.active
\* false and activeIndex 0 and marks the label active, and the mark lasts
\* until the next render, which passes active = true to the label; Escape in
\* a Menu without a label invokes no callback and changes no state.
EscapeReturnsToLabel ==
    [][/\ (last'.ev = "menuKeyDown" /\ last'.key = commonKeys.escape) =>
              IF properties.label
              THEN /\ calls'.onRequestHide = 1
                   /\ calls'.onRequestShow = 0
                   /\ ~state'.active
                   /\ activeIndex' = 0
                   /\ isLabelActive'
              ELSE /\ calls' = NoCalls
                   /\ UNCHANGED <<properties, children, state, activeIndex, isLabelActive,
                                  hideTimer, timers, focusInside, focusChecks, labelNode, menuNode, id>>
       /\ (properties.label /\ isLabelActive /\ last'.ev # "render") => isLabelActive'
       /\ (properties.label /\ isLabelActive /\ last'.ev = "render") => labelNode'.active
      ]_vars

\* Escape has been handled by a Menu with a label, which requested the hide
\* and marked the label active
EscapeWithLabelSeen ==
    /\ last.ev = "menuKeyDown"
    /\ last.key = commonKeys.escape
    /\ properties.label
    /\ isLabelActive
    /\ calls.onRequestHide = 1

\* C8: a toggleDisplay that resolves to show invokes onRequestShow once and
\* not onRequestHide; one that resolves to hide invokes onRequestHide once,
\* not onRequestShow, and leaves activeIndex = 0.
RequestInvokesOneCallback ==
    calls.req # "none" =>
        IF (IF calls.req = "undefined" THEN Hidden ELSE calls.req = "true")
        THEN calls.onRequestShow = 1 /\ calls.onRequestHide = 0
        ELSE calls.onRequestHide = 1 /\ calls.onRequestShow = 0 /\ activeIndex = 0

\* the toggle of a visible menu (label click or Enter) has resolved to hide
ToggleResolvedToHideSeen ==
    /\ calls.req = "undefined"
    /\ ~Hidden
    /\ calls.onRequestHide = 1

\* C9: no handler of the Menu changes its `hidden` property; it changes only
\* when the owner passes new properties.
HandlersKeepHidden ==
    [][last'.ev # "setProperties" => properties'.hidden = properties.hidden]_vars

\* a handler has requested the show and `hidden` is still true
ShowRequestedWhileHiddenSeen ==
    /\ calls.onRequestShow = 1
    /\ properties.hidden = "true"

\* C10: after every render of a hidden Menu no child carries focusable = true
\* or active = true.
HiddenRenderClearsChildren ==
    (last.ev = "render" /\ Hidden) =>
        \A i \in DOMAIN children : ~children[i].focusable /\ ~children[i].active

\* C11: after every render of a visible Menu at most one child has active =
\* true and at most one has focusable = true; a child is active only if
\* state.active holds, the label was not marked active when the render began
\* and the child's index is activeIndex; a child is focusable only if the
\* Menu has no label and its index is activeIndex.
RenderMarksOneChild ==
    [][(last'.ev = "render" /\ ~Hidden) =>
          /\ Cardinality({i \in DOMAIN children' : children'[i].active}) <= 1
          /\ Cardinality({i \in DOMAIN children' : children'[i].focusable}) <= 1
          /\ \A i \in DOMAIN children' :
                /\ children'[i].active =>
                      state'.active /\ ~isLabelActive /\ (i - 1) = activeIndex'
                /\ children'[i].focusable =>
                      ~properties'.label /\ (i - 1) = activeIndex'
      ]_vars

\* a visible Menu of two children has been rendered with its second child active
SecondChildActiveSeen ==
    /\ last.ev = "render"
    /\ ~Hidden
    /\ Len(children) = 2
    /\ children[2].active
    /\ ~children[1].active

\* C12: a focusin on a Menu that is hidden and not disabled requests the open
\* (onRequestShow is invoked) and marks the Menu active; a focusin on a
\* disabled Menu requests no open.
FocusRequestsOpen ==
    last.ev = "focus" =>
        IF properties.disabled
        THEN calls.onRequestShow = 0
        ELSE Hidden => (calls.onRequestShow = 1 /\ state.active)

\* C13: a focusout never changes state.active itself; the frame callback it
\* queues clears state.active only when the focused element is then outside
\* the Menu, so a focusin that arrives before the frame keeps it true.
FocusOutDefersDecision ==
    [][/\ last'.ev = "focusOut" => state'.active = state.active
       /\ (last'.ev = "focusCheck" /\ state.active /\ ~state'.active) => ~focusInside
      ]_vars

AscendIsLeftOrUp ==
    [][LET n == Len(children)
           horizontal == Orientation = "horizontal"
       IN  (last'.ev = "menuKeyDown" /\ activeIndex \in 0..(n - 1)) =>
              /\ last'.key = (IF horizontal THEN arrowKeys.left ELSE arrowKeys.up) =>
                     activeIndex' = (activeIndex + n - 1) % n
              /\ last'.key = (IF horizontal THEN arrowKeys.right ELSE arrowKeys.down) =>
                     activeIndex' = (activeIndex + 1) % n
              /\ (/\ last'.key = (IF horizontal THEN arrowKeys.left ELSE arrowKeys.up)
                  /\ properties.label
                  /\ ~Hidden) =>
                     /\ isLabelActive'
                     /\ ~state'.active
                     /\ activeIndex' = activeIndex
      ]_vars

\* C16 as amended: the decrease and increase keys as stated; the ascend key is
\* Up on a horizontal Menu and Left on a vertical one, and on an open Menu
\* with a label it marks the label active and clears state.active without
\* moving activeIndex.
AscendIsUpOrLeft ==
    [][LET n == Len(children)
           horizontal == Orientation = "horizontal"
       IN  (last'.ev = "menuKeyDown" /\ activeIndex \in 0..(n - 1)) =>
              /\ last'.key = (IF horizontal THEN arrowKeys.left ELSE arrowKeys.up) =>
                     activeIndex' = (activeIndex + n - 1) % n
              /\ last'.key = (IF horizontal THEN arrowKeys.right ELSE arrowKeys.down) =>
                     activeIndex' = (activeIndex + 1) % n
              /\ (/\ last'.key = (IF horizontal THEN arrowKeys.up ELSE arrowKeys.left)
                  /\ properties.label
                  /\ ~Hidden) =>
                     /\ isLabelActive'
                     /\ ~state'.active
                     /\ activeIndex' = activeIndex
      ]_vars

\* Left in an open vertical Menu with a label, its second child current, has
\* marked the label active and left activeIndex alone
AscendOnVerticalSeen ==
    /\ last.ev = "menuKeyDown"
    /\ last.key = arrowKeys.left
    /\ Orientation = "vertical"
    /\ properties.label
    /\ ~Hidden
    /\ isLabelActive
    /\ ~state.active
    /\ activeIndex = 1

\* C17: a click inside the Menu or a Space keydown invokes onRequestHide (and
\* not onRequestShow) exactly when role is not 'menubar' and hideOnActivate
\* is not false; otherwise no callback is invoked and state.active and
\* activeIndex are unchanged.
ActivationClosesUnlessMenubar ==
    [][(\/ last'.ev = "itemActivate"
        \/ (last'.ev = "menuKeyDown" /\ last'.key = commonKeys.space)) =>
          IF properties.role # "menubar" /\ properties.hideOnActivate
          THEN calls'.onRequestHide = 1 /\ calls'.onRequestShow = 0
          ELSE /\ calls' = NoCalls
               /\ state' = state
               /\ activeIndex' = activeIndex
      ]_vars

\* Space in an active menubar with hideOnActivate has invoked nothing
SpaceInMenubarSeen ==
    /\ last.ev = "menuKeyDown"
    /\ last.key = commonKeys.space
    /\ properties.role = "menubar"
    /\ properties.hideOnActivate
    /\ state.active
    /\ calls = NoCalls

\* C18: the Menu's own id is generated once: _id never changes, every render
\* made while the owner supplies no id gives the menu element that id (so two
\* such renders in a row give the same id), and in each render of a Menu with
\* a label the label's aria-controls is the id of the menu element of that
\* render.
IdGeneratedOnce ==
    [][/\ id' = id
       /\ last'.ev = "render" =>
              /\ menuNode'.generated => menuNode'.id = id
              /\ (menuNode.generated /\ menuNode'.generated) => menuNode'.id = menuNode.id
              /\ properties.label => labelNode'.controls = menuNode'.id
      ]_vars

\* a Menu with a label whose owner supplies no id has been rendered with the
\* generated id on the menu element and on the label
GeneratedIdRenderedSeen ==
    /\ last.ev = "render"
    /\ properties.label
    /\ menuNode.generated
    /\ menuNode.id = "uuid-2"
    /\ labelNode.controls = "uuid-2"

\* C19: in a horizontal top-level Menu of 3 items whose second item hosts a
\* vertical submenu: the descend key on the submenu's label, pressed while
\* that item is the top-level Menu's current one, requests the open and
\* leaves the submenu active with index 0; the submenu's ascend key pressed
\* next in the open submenu marks the label active, clears the submenu's
\* active state and finds the second item still current in the top-level
\* Menu; and the top-level Menu is not asked to hide along the way.
NestedDescendAscend ==
    /\ (parent.trail = "descended" /\ last.ev = "labelKeyDown") =>
           /\ calls.onRequestShow = 1
           /\ state.active
           /\ activeIndex = 0
    /\ (parent.trail = "ascended" /\ last.ev = "menuKeyDown" /\ ~Hidden) =>
           /\ isLabelActive
           /\ ~state.active
           /\ parent.activeIndex = TopLevel.nestedAt
    /\ parent.trail # "idle" => ~parent.asked

\* C20: a Space keydown on a MenuItem calls click() on the event's target
\* exactly once; a keydown of any other key calls it not at all.
SpaceClicksTarget ==
    itemCalls.ev = "keydown" =>
        itemCalls.targetClicks =
            (IF itemCalls.event.keyCode = commonKeys.space THEN 1 ELSE 0)

\* C21: the tabIndex a MenuItem renders is -1 whenever it is disabled, also
\* when the owner gave a positive tabIndex; enabled, it is 0 when the owner
\* gave none and the owner's value otherwise.
TabIndexRespectsDisabled ==
    itemCalls.ev = "render" =>
        /\ item.disabled => itemNode.tabIndex = 0 - 1
        /\ (~item.disabled /\ item.tabIndex = {}) => itemNode.tabIndex = 0
        /\ ~item.disabled => \A t \in item.tabIndex : itemNode.tabIndex = t

\* a disabled MenuItem whose owner gave tabIndex 1 has been rendered
DisabledTabIndexSeen ==
    /\ itemCalls.ev = "render"
    /\ item.disabled
    /\ item.tabIndex = {1}
    /\ itemNode.tabIndex = 0 - 1

\* C22: a MenuItem renders role 'menuitem' for an unset type and for 'item',
\* 'menuitemcheckbox' for 'checkbox' and 'menuitemradio' for 'radio'.
TypeSelectsRole ==
    itemCalls.ev = "render" =>
        itemNode.role = (CASE item.type = "checkbox" -> "menuitemcheckbox"
                           [] item.type = "radio" -> "menuitemradio"
                           [] OTHER -> "menuitem")

\* C23: a Menu has at most one pending hide timer at any moment: a mouse-leave
\* that starts a timer has destroyed the one pending before it, so only the
\* newest timer remains, and once a timer has called back none is left to
\* request another hide.
OnePendingHideTimer ==
    /\ Len(timers) <= 1
    /\ hideTimer = Len(timers)
    /\ (last.ev = "mouseLeave" /\ last.timer # NoTimer) =>
           (Len(timers) = 1 => timers[1].age = 0)
    /\ last.ev = "hideTimer" => timers = <<>>

\* a mouse-leave has replaced a timer that was still pending
PendingTimerReplacedSeen ==
    /\ last.ev = "mouseLeave"
    /\ last.timer.delay > 0
    /\ last.timer.age < last.timer.delay
    /\ Len(timers) = 1
    /\ timers[1].age = 0

\* C24: moveActiveIndex never yields a negative index, nor one that is not
\* below the number of children, whatever the number of children (an empty
\* menu included) and whatever the previous index.
MoveYieldsValidIndex ==
    (last.ev = "menuKeyDown" /\ last.key \in {Keys.decrease, Keys.increase}) =>
        /\ ~IsNaN(activeIndex)
        /\ activeIndex >= 0
        /\ Len(children) > 0 => activeIndex < Len(children)

\* C25: on an updated element of a Menu with a label and `animate`, the
\* animation helper requests no frame callback and writes no height when
\* wasOpen already equals !hidden, and requests one callback when hidden has
\* changed relative to wasOpen.
SettledUpdateIsNoOp ==
    [][(animLast' = "updated" /\ properties' = properties /\ frame' = frame
        /\ properties.label /\ Animate) =>
           IF wasOpen = ~Hidden
           THEN /\ frames' = frames
                /\ element' = element
                /\ wasOpen' = wasOpen
           ELSE /\ Len(frames') = Len(frames) + 1
                /\ frames'[Len(frames')].kind = "animate"
                /\ frames'[Len(frames')].hidden = Hidden
                /\ element' = element]_vars

\* the element of a settled, open Menu has been updated after a frame had run
SettledUpdateSeen ==
    /\ animLast = "updated"
    /\ properties.label
    /\ Animate
    /\ frame > 0
    /\ wasOpen = ~Hidden
    /\ frames = <<>>

\* C26: an animated close writes the measured height first and '0' only in
\* a later frame: every '0' a frame writes belongs to a measured height
\* written in an earlier frame, and every pending write of '0' waits for a
\* frame after the one that wrote its measured height.
CloseWritesZeroLater ==
    /\ \A i \in DOMAIN painted :
           painted[i].height = "0" =>
               (1 <= painted[i].measured /\ painted[i].measured < frame)
    /\ \A i \in DOMAIN frames :
           frames[i].kind = "zero" =>
               (1 <= frames[i].measured /\ frames[i].measured <= frame)

\* a frame has written '0' for a close whose height the frame before measured
CloseZeroWrittenSeen ==
    /\ animLast = "frame"
    /\ \E i \in DOMAIN painted :
           painted[i].height = "0" /\ painted[i].measured = frame - 1
    /\ element.height = "0"
    /\ ~wasOpen

\* C27: after an animated open the explicit pixel height is released once the
\* transition has completed, so an open Menu at rest has no fixed pixel height.
OpenReleasesHeight ==
    (/\ properties.label
     /\ Animate
     /\ wasOpen
     /\ ~Hidden
     /\ frames = <<>>
     /\ element.transition = "ended") => element.height # "px"

\* C28: once every frame callback has run and the last render has been
\* projected, wasOpen equals !hidden and the height is 0 exactly when hidden.
AnimationConverges ==
    (/\ properties.label
     /\ Animate
     /\ element.created
     /\ projected = properties.hidden
     /\ frames = <<>>) =>
        /\ wasOpen = ~Hidden
        /\ (element.height = "0") = Hidden

\* C29: updates of the element repeated with the same changed hidden before
\* the next frame leave at most one animation requested for that change.
OneAnimationPerChange ==
    \A i, j \in DOMAIN frames :
        (/\ i < j
         /\ frames[i].kind = "animate"
         /\ frames[j].kind = "animate") => frames[i].hidden # frames[j].hidden

\* C30: while `disabled` is true no handler invokes onRequestShow: not a
\* focus-in, a label click, a label keydown, a mouse-enter, a mouse-leave or
\* the callback of a hide timer.
DisabledNeverShows ==
    properties.disabled => (calls.onRequestShow = 0 /\ calls.req # "true")

\* a disabled, hidden Menu in hover mode has handled a mouse-enter
DisabledMouseEnterSeen ==
    /\ properties.disabled
    /\ ~properties.expandOnClick
    /\ Hidden
    /\ last.ev = "mouseEnter"
    /\ calls.onRequestShow = 0

====
